---- MODULE Spec2Model ----
(***************************************************************************)
(* Car-wash operations dashboard (app.py and the modules it imports).      *)
(*                                                                         *)
(* Two specifications share this module:                                   *)
(*   Spec      one Streamlit script run after another against the same     *)
(*             transactions table: upload, save, reload, classify,         *)
(*             aggregate, forecast, traffic, schedule, maintenance window. *)
(*   UnitSpec  the pure functions of the pipeline applied to inputs drawn  *)
(*             from bounded sets.                                          *)
(*                                                                         *)
(* Car quantities (median_cars, forecast_cars) are fixed-point integers in *)
(* units of 1/One of a car; One = 200 keeps medians of medians (quarters), *)
(* the 0.1-step multipliers and one-decimal rounding exact.                *)
(* A timestamp is date * 24 + hour; date 1 is a Monday.                    *)
(***************************************************************************)
EXTENDS Integers, Sequences, FiniteSets, TLC

\* ------------------------------------------------------------------ bounds
MaxBatch == 2      \* rows in one uploaded CSV
MaxDay == 2        \* distinct calendar dates of uploaded transactions
MaxWeather == 3    \* hourly records returned by the weather provider
MaxRuns == 2       \* script runs against the same table
MaxAgg == 3        \* rows of a data frame handed to the aggregator (UnitSpec)
MaxSeq == 3        \* forecast rows handed to the window selector (UnitSpec)
MaxW == 2          \* weather rows handed to the forecaster (UnitSpec)

\* ------------------------------------------------------- units and markers
One == 10 * 20
Tenth == One \div 10

NaT == -1          \* pandas NaT: an unparseable timestamp after errors="coerce"
NaN == -1          \* pandas NaN in a numeric column
NoStr == "NaN"     \* pandas NaN in a text column

Range(s) == {s[i] : i \in DOMAIN s}

RECURSIVE SumSeq(_)
SumSeq(s) == IF s = <<>> THEN 0 ELSE Head(s) + SumSeq(Tail(s))

RECURSIVE Flatten(_)
Flatten(ss) == IF ss = <<>> THEN <<>> ELSE Head(ss) \o Flatten(Tail(ss))

Perms(n) == {p \in [1..n -> 1..n] : \A i, j \in 1..n : i # j => p[i] # p[j]}

\* Every order in which sort_values (numpy quicksort, not stable) may leave
\* the rows: ascending by key, rows with equal keys in any order.
SortOrders(keys) ==
    {p \in Perms(Len(keys)) :
        \A i, j \in 1..Len(keys) : i < j => keys[p[i]] <= keys[p[j]]}

Permute(s, p) == [i \in 1..Len(s) |-> s[p[i]]]

With(r, k, v) == [f \in DOMAIN r \cup {k} |-> IF f = k THEN v ELSE r[f]]

\* The stable ascending order (used where pandas sorts group keys, which are
\* distinct).
SortedSeqOf(S) ==
    CHOOSE s \in [1..Cardinality(S) -> S] :
        \A i, j \in 1..Cardinality(S) : i < j => s[i] < s[j]

\* The median as pandas computes it: the middle value, or the mean of the two
\* middle values; vals are multiples of 2 units so the mean is exact.
Median(vals) ==
    LET n == Len(vals)
        p == CHOOSE q \in SortOrders(vals) : TRUE
        s == [i \in 1..n |-> vals[p[i]]]
    IN  IF n % 2 = 1 THEN s[(n + 1) \div 2]
        ELSE (s[n \div 2] + s[n \div 2 + 1]) \div 2

\* round(1): the nearest multiple of 0.1. A value exactly halfway between
\* two tenths goes to either, since the binary float holding it sits on one
\* side or the other of the tie.
Round1(x) ==
    LET lo == (x \div Tenth) * Tenth
        r  == x - lo
    IN  IF r = 0 THEN {lo}
        ELSE IF 2 * r < Tenth THEN {lo}
        ELSE IF 2 * r > Tenth THEN {lo + Tenth}
        ELSE {lo, lo + Tenth}

\* ------------------------------------------------------------ calendar
DateOf(ts) == ts \div 24
HourOf(ts) == ts % 24
WeekdayOfDate(d) == (d - 1) % 7
WeekdayOf(ts) == WeekdayOfDate(DateOf(ts))
IsWeekend(wd) == IF wd \in {5, 6} THEN 1 ELSE 0

\* ------------------------------------------------------------ config.py
STAFFING_THRESHOLDS ==
    << <<0, 20, 2>>, <<20, 40, 3>>, <<40, 60, 4>>, <<60, 80, 5>>, <<80, 9999, 6>> >>

\* ------------------------------------------------------- data_loader.py
\* A CSV time cell either parses to an instant or does not.
ParseTime(cell) == IF cell.parses THEN cell.instant ELSE NaT

MentionsMember(t) == t \in {"unlimited member", "member"}

CleanType(t) == IF t = "Retail " THEN "retail" ELSE t

\* load_and_clean after the required-columns check: one cleaned row per CSV
\* row, an unparseable time kept as NaT with NaN hour and weekday.
load_and_clean(raw, base) ==
    [i \in 1..Len(raw) |->
        LET ts == ParseTime(raw[i].time)
            wd == IF ts = NaT THEN NaN ELSE WeekdayOf(ts)
        IN  [orderId      |-> base + i,
             licensePlate |-> IF raw[i].licensePlate = NoStr THEN "UNKNOWN"
                              ELSE raw[i].licensePlate,
             type         |-> CleanType(raw[i].type),
             time         |-> ts,
             date         |-> IF ts = NaT THEN NaT ELSE DateOf(ts),
             hour         |-> IF ts = NaT THEN NaN ELSE HourOf(ts),
             weekday      |-> wd,
             is_weekend   |-> IsWeekend(wd)]]

GroupKeyOf(r) == <<r.date, r.hour, r.weekday, r.is_weekend>>

\* Variant: groupby with dropna=False: rows with a missing key are grouped too.
KeepsEveryRow(r) == TRUE

\* groupby drops a row when any of its key columns is missing (dropna=True).
HasGroupKey(r) == r.date # NaT /\ r.hour # NaN /\ r.weekday # NaN

KeyRank(k) == ((k[1] * 24 + k[2]) * 7 + k[3]) * 2 + k[4]

\* aggregate_hourly_counts: groupby(date, hour, weekday, is_weekend).size(),
\* one row per observed key, keys ascending.
aggregate_hourly_counts(df) ==
    LET kept  == SelectSeq(df, HasGroupKey)
        ranks == {KeyRank(GroupKeyOf(kept[i])) : i \in DOMAIN kept}
        order == SortedSeqOf(ranks)
        keyAt(n) == CHOOSE k \in {GroupKeyOf(kept[i]) : i \in DOMAIN kept} :
                        KeyRank(k) = order[n]
    IN  [n \in 1..Cardinality(ranks) |->
            [date       |-> keyAt(n)[1],
             hour       |-> keyAt(n)[2],
             weekday    |-> keyAt(n)[3],
             is_weekend |-> keyAt(n)[4],
             cars       |-> Cardinality({i \in DOMAIN kept :
                                            GroupKeyOf(kept[i]) = keyAt(n)})]]

\* ----------------------------------------------------- customer_intel.py
\* Line 15 raises: KeyError when the frame has no "type" column, ValueError
\* when str.contains leaves NaN for a row whose type is missing and
\* astype(int) meets it.
classify_raises(df) ==
    /\ df # <<>>
    /\ \/ "type" \notin DOMAIN df[1]
       \/ \E i \in DOMAIN df : df[i].type = NoStr

\* sort_values("time") puts NaT last.
TimeKey(r) == IF r.time = NaT THEN (MaxDay + 100) * 24 ELSE r.time

classify_sorted(s) ==
    [i \in 1..Len(s) |->
        LET vn == Cardinality({j \in 1..i : s[j].licensePlate = s[i].licensePlate})
        IN  With(With(With(s[i],
                "is_member", IF MentionsMember(s[i].type) THEN 1 ELSE 0),
                "visit_number", vn),
                "is_new_customer", IF vn = 1 THEN 1 ELSE 0)]

\* classify_customers when line 15 does not raise: every frame it can return.
classify_customers(df) ==
    {classify_sorted(Permute(df, p)) :
        p \in SortOrders([i \in 1..Len(df) |-> TimeKey(df[i])])}

\* -------------------------------------------------------- forecasting.py
ProfileKeyRank(wd, h) == wd * 24 + h

\* build_baseline_profile: groupby(weekday, hour) median of cars.
build_baseline_profile(hourly) ==
    LET ranks == {ProfileKeyRank(hourly[i].weekday, hourly[i].hour) : i \in DOMAIN hourly}
        order == SortedSeqOf(ranks)
        grp(n) == LET InGroup(r) == ProfileKeyRank(r.weekday, r.hour) = order[n]
                  IN  SelectSeq(hourly, InGroup)
    IN  [n \in 1..Cardinality(ranks) |->
            [weekday     |-> order[n] \div 24,
             hour        |-> order[n] % 24,
             median_cars |-> Median([i \in 1..Len(grp(n)) |-> grp(n)[i].cars * One])]]

\* Variant: the merge with how="inner": weather rows without a profile row
\* are dropped.
merge_inner(weather_df, profile_df) ==
    Flatten([i \in 1..Len(weather_df) |->
        LET w == weather_df[i]
            Matches(p) == p.weekday = w.weekday /\ p.hour = w.hour
            m == SelectSeq(profile_df, Matches)
        IN  [j \in 1..Len(m) |-> With(w, "median_cars", m[j].median_cars)]])

\* pd.merge(weather, profile, how="left", on=[weekday, hour]): each weather row
\* once per matching profile row, or once with median_cars missing.
merge_left(weather_df, profile_df) ==
    Flatten([i \in 1..Len(weather_df) |->
        LET w == weather_df[i]
            Matches(p) == p.weekday = w.weekday /\ p.hour = w.hour
            m == SelectSeq(profile_df, Matches)
        IN  IF m = <<>> THEN << With(w, "median_cars", NaN) >>
            ELSE [j \in 1..Len(m) |-> With(w, "median_cars", m[j].median_cars)]])

\* Variant: missing medians filled with zero instead of the global median.
global_median_zero(profile_df) == 0

global_median(profile_df) ==
    IF profile_df = <<>> THEN 0
    ELSE Median([i \in 1..Len(profile_df) |-> profile_df[i].median_cars])

\* Lines 32-41: fillna with the global median, then the rain mask. The value
\* of forecast_cars before round(1); rain_impact is in tenths.
forecast_unrounded(profile_df, weather_df, rain_impact) ==
    LET merged == merge_left(weather_df, profile_df)
        gm     == global_median(profile_df)
    IN  [i \in 1..Len(merged) |->
            LET med == IF merged[i].median_cars = NaN THEN gm
                       ELSE merged[i].median_cars
                row == With(merged[i], "median_cars", med)
            IN  With(row, "forecast_cars",
                     IF row.precip_prob >= 60 THEN (med * rain_impact) \div 10
                     ELSE med)]

\* Every frame round(1) can make of df: each forecast_cars to a nearest tenth,
\* equal values rounded alike.
round_forecast(df) ==
    LET n == Len(df)
        cands == UNION {Round1(df[i].forecast_cars) : i \in 1..n}
        picks == {c \in [1..n -> cands] :
                    /\ \A i \in 1..n : c[i] \in Round1(df[i].forecast_cars)
                    /\ \A i, j \in 1..n :
                          df[i].forecast_cars = df[j].forecast_cars => c[i] = c[j]}
    IN  {[i \in 1..n |-> With(df[i], "forecast_cars", c[i])] : c \in picks}

forecast_with_weather(profile_df, weather_df, rain_impact) ==
    round_forecast(forecast_unrounded(profile_df, weather_df, rain_impact))

\* --------------------------------------------------------- scheduling.py
RECURSIVE staff_loop(_, _)
staff_loop(cars, k) ==
    IF k > Len(STAFFING_THRESHOLDS) THEN STAFFING_THRESHOLDS[Len(STAFFING_THRESHOLDS)][3]
    ELSE IF STAFFING_THRESHOLDS[k][1] * One <= cars /\ cars < STAFFING_THRESHOLDS[k][2] * One
         THEN STAFFING_THRESHOLDS[k][3]
         ELSE staff_loop(cars, k + 1)

\* Variant: the tier test written low < cars <= high.
RECURSIVE staff_loop_shifted(_, _)
staff_loop_shifted(cars, k) ==
    IF k > Len(STAFFING_THRESHOLDS) THEN STAFFING_THRESHOLDS[Len(STAFFING_THRESHOLDS)][3]
    ELSE IF STAFFING_THRESHOLDS[k][1] * One < cars /\ cars <= STAFFING_THRESHOLDS[k][2] * One
         THEN STAFFING_THRESHOLDS[k][3]
         ELSE staff_loop_shifted(cars, k + 1)

staff_for_cars_shifted(cars) == staff_loop_shifted(cars, 1)

staff_for_cars(cars) == staff_loop(cars, 1)

build_staff_schedule(forecast_df) ==
    [i \in 1..Len(forecast_df) |->
        With(forecast_df[i], "staff", staff_for_cars(forecast_df[i].forecast_cars))]

\* -------------------------------------------------------- maintenance.py
\* The loop of lines 17-24 over the sorted frame s: the best pair so far after
\* looking at positions i.., as the position of its first row (0: none yet).
RECURSIVE window_loop(_, _, _, _)
window_loop(s, i, best_i, best_sum) ==
    IF i > Len(s) - 1 THEN best_i
    ELSE LET pair_sum == s[i].forecast_cars + s[i + 1].forecast_cars
         IN  IF best_i = 0 \/ pair_sum < best_sum
             THEN window_loop(s, i + 1, i, pair_sum)
             ELSE window_loop(s, i + 1, best_i, best_sum)

window_of_sorted(s) ==
    LET b == window_loop(s, 1, 0, 0)
    IN  IF b = 0 THEN <<>> ELSE << s[b], s[b + 1] >>

\* suggest_maintenance_window: sort_values("forecast_cars"), then the loop.
\* <<>> stands for None. Every result the sort's tie order allows.
suggest_maintenance_window(forecast_df) ==
    {window_of_sorted(Permute(forecast_df, p)) :
        p \in SortOrders([i \in 1..Len(forecast_df) |-> forecast_df[i].forecast_cars])}

\* ----------------------------------------------------- supabase_client.py
\* insert_transactions builds every record before it calls the table:
\* int(row.get("hour")) raises ValueError on the NaN hour of a NaT row.
insert_raises(df) == \E i \in DOMAIN df : df[i].hour = NaN \/ df[i].weekday = NaN

\* The records insert_transactions sends: the table's column names, flags as
\* booleans.
insert_records(df) ==
    [i \in 1..Len(df) |->
        [order_id        |-> df[i].orderId,
         license_plate   |-> df[i].licensePlate,
         wash_type       |-> df[i].type,
         time            |-> df[i].time,
         date            |-> df[i].date,
         hour            |-> df[i].hour,
         weekday         |-> df[i].weekday,
         is_weekend      |-> df[i].is_weekend = 1,
         is_member       |-> df[i].is_member = 1,
         is_new_customer |-> df[i].is_new_customer = 1]]

\* load_full_history: a frame with the table's columns, one row per stored
\* record.
load_full_history(table) == table

\* ----------------------------------------------------------- weather_api.py
weather_row(ts, precip, rain) ==
    [time        |-> ts,
     precip_prob |-> precip,
     rain_mm     |-> rain,
     hour        |-> HourOf(ts),
     date        |-> DateOf(ts),
     weekday     |-> WeekdayOf(ts),
     is_weekend  |-> IsWeekend(WeekdayOf(ts))]

\* ------------------------------------------------------------------ app.py
TextColumns == {"licensePlate", "type", "license_plate", "wash_type"}

CsvFrameColumns ==
    {"orderId", "licensePlate", "type", "time", "date", "hour", "weekday",
     "is_weekend", "is_member", "visit_number", "is_new_customer"}

\* pd.concat([a, b], ignore_index=True): the union of the columns, a column a
\* row's frame does not have filled with NaN.
concat(a, b) ==
    LET cols == (IF a = <<>> THEN {} ELSE DOMAIN a[1]) \cup CsvFrameColumns
        Pad(r) == [f \in cols |->
                     IF f \in DOMAIN r THEN r[f]
                     ELSE IF f \in TextColumns THEN NoStr ELSE NaN]
    IN  [i \in 1..Len(a) |-> Pad(a[i])] \o [i \in 1..Len(b) |-> Pad(b[i])]

\* traffic_factor in tenths: 1.0 + (traffic_index - 3) * 0.1.
traffic_factor(traffic_index) == 10 + (traffic_index - 3)

\* Line 143: forecast_cars * traffic_factor, then round(1).
apply_traffic(forecast_df, traffic_index) ==
    round_forecast([i \in 1..Len(forecast_df) |->
        With(forecast_df[i], "forecast_cars",
             (forecast_df[i].forecast_cars * traffic_factor(traffic_index)) \div 10)])

\* int(): truncation toward zero of a quantity in units.
IntOf(x) == IF x >= 0 THEN x \div One ELSE -((-x) \div One)

\* Line 171: int(forecast_df["forecast_cars"].sum()).
total_forecast_of(forecast_df) ==
    IntOf(SumSeq([i \in 1..Len(forecast_df) |-> forecast_df[i].forecast_cars]))

DEFAULT_RAIN_IMPACT == 7

\* ---------------------------------------------------------------- inputs
RawPlates == {"A", NoStr}
TxHours == {20, 21}
TxTimes == {d * 24 + h : d \in 1..MaxDay, h \in TxHours}
RawTimes ==
    {[parses |-> TRUE, instant |-> t] : t \in TxTimes}
        \cup {[parses |-> FALSE, instant |-> 0]}
RawRows == [licensePlate : RawPlates, type : {"Retail "}, time : RawTimes]
RawBatchesOf(rows, n) == UNION {[1..k -> rows] : k \in 0..n}
RawBatches(n) == RawBatchesOf(RawRows, n)
CsvInputs ==
    {[missing_columns |-> TRUE, rows |-> <<>>]}
        \cup {[missing_columns |-> FALSE, rows |-> b] : b \in RawBatches(MaxBatch)}

\* The provider's hours start one week after date 1, at hour 20.
WeatherStart == 8 * 24 + 20
PrecipLevels == {0, 75}
WeatherInputs(n) ==
    UNION {{[i \in 1..k |-> weather_row(WeatherStart + i - 1, pp[i], 0)] :
                pp \in [1..k -> PrecipLevels]} : k \in 1..n}

\* ----------------------------------------------------------------- state
VARIABLES
    run,            \* number of the script run
    pc,             \* where the run is: start, insert, load, classify,
                    \* forecast, adjust, done, stopped (st.stop), crashed
    table,          \* the site's rows of the transactions table
    uploaded,       \* whether this run has an uploaded file
    msgs,           \* st.info / st.success / st.warning / st.error shown
    exc,            \* the uncaught exception that ended the run, or "none"
    new_df, history_df, df, hourly, profile, weather_df, forecast_df,
    schedule_df, maint_window, total_forecast, traffic_index,
    u_fn, u_in, u_out   \* UnitSpec: function, argument, <<result>>

appVars == <<run, pc, table, uploaded, msgs, exc, new_df, history_df, df, hourly,
             profile, weather_df, forecast_df, schedule_df, maint_window,
             total_forecast, traffic_index>>
unitVars == <<u_fn, u_in, u_out>>
vars == <<appVars, unitVars>>

RunLocalsInit ==
    /\ pc = "start"
    /\ uploaded = FALSE
    /\ msgs = {}
    /\ exc = "none"
    /\ new_df = <<>>
    /\ history_df = <<>>
    /\ df = <<>>
    /\ hourly = <<>>
    /\ profile = <<>>
    /\ weather_df = <<>>
    /\ forecast_df = <<>>
    /\ schedule_df = <<>>
    /\ maint_window = <<>>
    /\ total_forecast = 0
    /\ traffic_index = 0

Init ==
    /\ run = 1
    /\ table = <<>>
    /\ RunLocalsInit
    /\ u_fn = "none" /\ u_in = <<>> /\ u_out = <<>>

\* Lines 92-98, no file: the info line, then on to load the history.
NoUpload ==
    /\ pc = "start"
    /\ uploaded' = FALSE
    /\ msgs' = msgs \cup {"info: upload a CSV"}
    /\ pc' = "load"
    /\ UNCHANGED <<run, table, exc, new_df, history_df, df, hourly, profile,
                   weather_df, forecast_df, schedule_df, maint_window,
                   total_forecast, traffic_index, unitVars>>

\* Lines 100-107: load_and_clean (a missing column: st.error, st.stop), then
\* classify_customers on the batch alone.
Upload ==
    /\ pc = "start"
    /\ \E csv \in CsvInputs :
        IF csv.missing_columns
        THEN /\ msgs' = msgs \cup {"error: loading file"}
             /\ pc' = "stopped"
             /\ UNCHANGED new_df
        ELSE /\ new_df' \in classify_customers(load_and_clean(csv.rows, run * MaxBatch))
             /\ pc' = "insert"
             /\ UNCHANGED msgs
    /\ uploaded' = TRUE
    /\ UNCHANGED <<run, table, exc, history_df, df, hourly, profile,
                   weather_df, forecast_df, schedule_df, maint_window,
                   total_forecast, traffic_index, unitVars>>

\* Lines 109-114: insert_transactions inside try/except. It raises while
\* building the records (a NaT row) or when the table call fails; either way
\* nothing is stored and the warning is shown.
Insert ==
    /\ pc = "insert"
    /\ \E call_ok \in BOOLEAN :
        IF insert_raises(new_df)
        THEN /\ msgs' = msgs \cup {"warning: could not save: ValueError"}
             /\ UNCHANGED table
        ELSE IF new_df # <<>> /\ ~call_ok
        THEN /\ msgs' = msgs \cup {"warning: could not save: StorageError"}
             /\ UNCHANGED table
        ELSE /\ table' = table \o insert_records(new_df)
             /\ msgs' = msgs \cup {"success: saved"}
    /\ pc' = "load"
    /\ UNCHANGED <<run, uploaded, exc, new_df, history_df, df, hourly, profile,
                   weather_df, forecast_df, schedule_df, maint_window,
                   total_forecast, traffic_index, unitVars>>

\* Lines 95-98 and 117-121: load_full_history outside any try; then df is the
\* history (no upload; st.stop when it is empty), or history ++ batch.
LoadHistory ==
    /\ pc = "load"
    /\ \E call_ok \in BOOLEAN :
        IF ~call_ok
        THEN /\ exc' = "StorageError"
             /\ pc' = "crashed"
             /\ UNCHANGED <<history_df, df>>
        ELSE /\ history_df' = load_full_history(table)
             /\ exc' = "none"
             /\ IF uploaded
                THEN /\ df' = IF history_df' # <<>> THEN concat(history_df', new_df)
                              ELSE new_df
                     /\ pc' = "classify"
                ELSE /\ df' = history_df'
                     /\ pc' = IF history_df' = <<>> THEN "stopped" ELSE "classify"
    /\ UNCHANGED <<run, table, uploaded, msgs, new_df, hourly, profile,
                   weather_df, forecast_df, schedule_df, maint_window,
                   total_forecast, traffic_index, unitVars>>

\* Lines 124-130: classify_customers on df, aggregate_hourly_counts, and the
\* stop when no hourly row is left.
Classify ==
    /\ pc = "classify"
    /\ IF classify_raises(df)
       THEN /\ exc' = IF "type" \in DOMAIN df[1] THEN "ValueError" ELSE "KeyError"
            /\ pc' = "crashed"
            /\ UNCHANGED <<df, hourly, msgs>>
       ELSE /\ df' \in classify_customers(df)
            /\ hourly' = aggregate_hourly_counts(df')
            /\ exc' = "none"
            /\ IF hourly' = <<>>
               THEN /\ msgs' = msgs \cup {"warning: no rows after cleaning"}
                    /\ pc' = "stopped"
               ELSE /\ pc' = "forecast"
                    /\ UNCHANGED msgs
    /\ UNCHANGED <<run, table, uploaded, new_df, history_df, profile,
                   weather_df, forecast_df, schedule_df, maint_window,
                   total_forecast, traffic_index, unitVars>>

\* Lines 133-139: the baseline profile, the weather fetch (its failure is not
\* caught) and forecast_with_weather with the default rain impact.
Forecast ==
    /\ pc = "forecast"
    /\ profile' = build_baseline_profile(hourly)
    /\ \E fetch_ok \in BOOLEAN :
        IF ~fetch_ok
        THEN /\ exc' = "WeatherUnavailableError"
             /\ pc' = "crashed"
             /\ UNCHANGED <<weather_df, forecast_df>>
        ELSE /\ weather_df' \in WeatherInputs(MaxWeather)
             /\ forecast_df' \in forecast_with_weather(profile', weather_df', DEFAULT_RAIN_IMPACT)
             /\ exc' = "none"
             /\ pc' = "adjust"
    /\ UNCHANGED <<run, table, uploaded, msgs, new_df, history_df, df, hourly,
                   schedule_df, maint_window, total_forecast, traffic_index,
                   unitVars>>

\* Lines 141-175 and the tables of 204-221: the traffic multiplier, the staff
\* schedule, the maintenance window and the reported total.
Adjust ==
    /\ pc = "adjust"
    /\ traffic_index' \in 1..5
    /\ forecast_df' \in apply_traffic(forecast_df, traffic_index')
    /\ schedule_df' = build_staff_schedule(forecast_df')
    /\ maint_window' \in suggest_maintenance_window(forecast_df')
    /\ total_forecast' = total_forecast_of(forecast_df')
    /\ pc' = "done"
    /\ UNCHANGED <<run, table, uploaded, msgs, exc, new_df, history_df, df,
                   hourly, profile, weather_df, unitVars>>

\* The next script run: everything but the table starts afresh.
NextRun ==
    /\ pc \in {"done", "stopped", "crashed"}
    /\ run < MaxRuns
    /\ run' = run + 1
    /\ pc' = "start"
    /\ uploaded' = FALSE
    /\ msgs' = {}
    /\ exc' = "none"
    /\ new_df' = <<>>
    /\ history_df' = <<>>
    /\ df' = <<>>
    /\ hourly' = <<>>
    /\ profile' = <<>>
    /\ weather_df' = <<>>
    /\ forecast_df' = <<>>
    /\ schedule_df' = <<>>
    /\ maint_window' = <<>>
    /\ total_forecast' = 0
    /\ traffic_index' = 0
    /\ UNCHANGED <<table, unitVars>>

Next ==
    \/ NoUpload
    \/ Upload
    \/ Insert
    \/ LoadHistory
    \/ Classify
    \/ Forecast
    \/ Adjust
    \/ NextRun

Spec == Init /\ [][Next]_vars

\* ------------------------------------------------------------- UnitSpec
\* The pure functions applied to drawn inputs; u_out is <<>> before the call
\* and <<result>> after it.
MaxStaffTenths == 1000   \* forecast values 0.0 .. 100.0 in steps of 0.1

StaffInputs ==
    {t * Tenth : t \in 0..MaxStaffTenths}
        \cup {1000 * One, 9999 * One - Tenth, 9999 * One, 10000 * One}

forecast_rows(values) ==
    [i \in 1..Len(values) |->
        [time |-> WeatherStart + i - 1, forecast_cars |-> values[i] * One]]

WindowValues == {1, 2, 3, 10}
WindowInputs ==
    {forecast_rows(v) : v \in UNION {[1..k -> WindowValues] : k \in 0..MaxSeq}}
        \cup {forecast_rows(<<10, 3, 4, 20, 1, 2>>)}

\* Profiles as build_baseline_profile makes them: one row per key, keys
\* ascending, medians positive multiples of one half.
UnitProfileKeys == {<<1, 14>>, <<2, 14>>}
UnitMedians == {3 * (One \div 2), 10 * One}
ProfileInputs ==
    UNION {{[n \in 1..Cardinality(K) |->
                LET rank == SortedSeqOf({ProfileKeyRank(k[1], k[2]) : k \in K})[n]
                    key  == CHOOSE k \in K : ProfileKeyRank(k[1], k[2]) = rank
                IN  [weekday |-> key[1], hour |-> key[2], median_cars |-> m[key]]] :
            m \in [K -> UnitMedians]} : K \in SUBSET UnitProfileKeys}

\* Weather for date 3 (weekday 2) from hour 14 on.
UnitWeatherStart == 3 * 24 + 14
UnitPrecip == {0, 59, 60, 75}
UnitRain == {0, 5}
UnitWeatherInputs ==
    UNION {{[i \in 1..k |-> weather_row(UnitWeatherStart + i - 1, c[i][1], c[i][2])] :
                c \in [1..k -> UnitPrecip \X UnitRain]} : k \in 1..MaxW}
RainImpacts == {-5, 7}
ForecastInputs ==
    [profile : ProfileInputs, weather : UnitWeatherInputs, rain_impact : RainImpacts]

\* Frames as the pipeline hands them to the aggregator: cleaned and classified.
\* The aggregator does not read the plate, so one plate is drawn.
AggregateInputs ==
    UNION {classify_customers(load_and_clean(b, 0)) :
            b \in RawBatchesOf([licensePlate : {"A"}, type : {"Retail "}, time : RawTimes],
                               MaxAgg)}

\* Hourly counts as aggregate_hourly_counts makes them from transactions on
\* two dates of the same weekday (3 and 10) and two hours.
MaxHist == 3
HistTimes == {3 * 24 + 14, 10 * 24 + 14, 3 * 24 + 15}
hist_row(ts) ==
    [time       |-> ts,
     date       |-> DateOf(ts),
     hour       |-> HourOf(ts),
     weekday    |-> WeekdayOf(ts),
     is_weekend |-> IsWeekend(WeekdayOf(ts))]
HourlyInputs ==
    {aggregate_hourly_counts([i \in DOMAIN t |-> hist_row(t[i])]) :
        t \in UNION {[1..k -> HistTimes] : k \in 0..MaxHist}}
PipelineInputs == [hourly : HourlyInputs, weather : UnitWeatherInputs]

UnitInit ==
    /\ run = 1
    /\ table = <<>>
    /\ RunLocalsInit
    /\ u_out = <<>>
    /\ \/ u_fn = "staff_for_cars" /\ u_in \in StaffInputs
       \/ u_fn = "suggest_maintenance_window" /\ u_in \in WindowInputs
       \/ u_fn = "forecast_with_weather" /\ u_in \in ForecastInputs
       \/ u_fn = "aggregate_hourly_counts" /\ u_in \in AggregateInputs
       \/ u_fn = "build_baseline_profile" /\ u_in \in PipelineInputs

CallStaff ==
    /\ u_fn = "staff_for_cars" /\ u_out = <<>>
    /\ u_out' = << staff_for_cars(u_in) >>
    /\ UNCHANGED <<appVars, u_fn, u_in>>

CallWindow ==
    /\ u_fn = "suggest_maintenance_window" /\ u_out = <<>>
    /\ \E w \in suggest_maintenance_window(u_in) : u_out' = << w >>
    /\ UNCHANGED <<appVars, u_fn, u_in>>

CallForecast ==
    /\ u_fn = "forecast_with_weather" /\ u_out = <<>>
    /\ \E f \in forecast_with_weather(u_in.profile, u_in.weather, u_in.rain_impact) :
          u_out' = << f >>
    /\ UNCHANGED <<appVars, u_fn, u_in>>

CallAggregate ==
    /\ u_fn = "aggregate_hourly_counts" /\ u_out = <<>>
    /\ u_out' = << aggregate_hourly_counts(u_in) >>
    /\ UNCHANGED <<appVars, u_fn, u_in>>

\* app.py lines 133-139: the profile of the hourly counts, then the forecast
\* for the fetched weather with the default rain impact.
CallProfile ==
    /\ u_fn = "build_baseline_profile" /\ u_out = <<>>
    /\ LET p == build_baseline_profile(u_in.hourly)
       IN  \E f \in forecast_with_weather(p, u_in.weather, DEFAULT_RAIN_IMPACT) :
              u_out' = << [profile |-> p, forecast |-> f] >>
    /\ UNCHANGED <<appVars, u_fn, u_in>>

UnitNext ==
    \/ CallProfile
    \/ CallStaff
    \/ CallWindow
    \/ CallForecast
    \/ CallAggregate

UnitSpec == UnitInit /\ [][UnitNext]_vars

\* ================================================================ claims
Called(fn) == u_fn = fn /\ u_out # <<>>

\* The element at 0-based sorted position k of the values vals.
ValueAtRank(vals, k) ==
    CHOOSE v \in Range(vals) :
        /\ Cardinality({i \in DOMAIN vals : vals[i] < v}) <= k
        /\ Cardinality({i \in DOMAIN vals : vals[i] <= v}) > k

PairSum(rows, i) == rows[i].forecast_cars + rows[i + 1].forecast_cars

\* C1: for a time-ordered forecast of at least two rows the window selector
\* returns two rows adjacent in that sequence, of minimal combined
\* forecast_cars over all adjacent pairs, the first such pair.
C1_AdjacentMinimalWindow ==
    (Called("suggest_maintenance_window") /\ Len(u_in) >= 2) =>
        \E i \in 1..(Len(u_in) - 1) :
            /\ Range(u_out[1]) = {u_in[i], u_in[i + 1]}
            /\ \A j \in 1..(Len(u_in) - 1) : PairSum(u_in, i) <= PairSum(u_in, j)
            /\ \A j \in 1..(i - 1) : PairSum(u_in, j) > PairSum(u_in, i)

InOperatingHours(r) == 8 <= r.hour /\ r.hour <= 20

\* C2: in a finished run no forecast row outside the operating hours 8..20
\* is in the staff schedule or the maintenance window, and the reported total
\* is the total of the rows inside the operating hours.
C2_OffHoursExcluded ==
    pc = "done" =>
        /\ \A i \in DOMAIN schedule_df : InOperatingHours(schedule_df[i])
        /\ \A i \in DOMAIN maint_window : InOperatingHours(maint_window[i])
        /\ total_forecast = total_forecast_of(SelectSeq(forecast_df, InOperatingHours))

HistoricalDays(d) == {d[i].date : i \in {j \in DOMAIN d : d[j].date # NaT}}
DailyCount(d, day) == Cardinality({i \in DOMAIN d : d[i].date = day})
DailyCap(d) ==
    LET most == CHOOSE n \in {DailyCount(d, day) : day \in HistoricalDays(d)} :
                    \A day \in HistoricalDays(d) : DailyCount(d, day) <= n
    IN  (most * 115) \div 100

\* C3: with at least one historical day the reported total is the smaller of
\* the raw summed forecast and floor(1.15 * the largest single-day
\* transaction count); with none it is the raw sum.
C3_TotalCapped ==
    pc = "done" =>
        total_forecast =
            IF HistoricalDays(df) # {} /\ DailyCap(df) < total_forecast_of(forecast_df)
            THEN DailyCap(df)
            ELSE total_forecast_of(forecast_df)

PastClassify ==
    \/ pc \in {"forecast", "adjust", "done"}
    \/ pc = "crashed" /\ exc \in {"ValueError", "KeyError", "WeatherUnavailableError"}
    \/ "warning: no rows after cleaning" \in msgs

RowsOfKey(d, k) == {i \in DOMAIN d : d[i].licensePlate = k}

VisitNumbersConsistent(d) ==
    /\ \A i \in DOMAIN d : "visit_number" \in DOMAIN d[i]
    /\ \A i \in DOMAIN d :
          LET same == RowsOfKey(d, d[i].licensePlate)
          IN  /\ {d[j].visit_number : j \in same} = 1..Cardinality(same)
              /\ \A j \in same :
                    (j # i => d[j].visit_number # d[i].visit_number)
                    /\ ((d[j].time # NaT /\ d[i].time # NaT /\ d[j].time < d[i].time)
                            => d[j].visit_number <= d[i].visit_number)
              /\ (d[i].is_new_customer = 1) <=> (d[i].visit_number = 1)

\* C4: once an upload run has classified history ++ batch, each identity
\* key's visit numbers are 1..k without repeats and non-decreasing in time,
\* is_new_customer is 1 exactly at visit 1, and a batch row whose key has an
\* earlier row in the history is not marked new.
C4_CombinedClassification ==
    (uploaded /\ PastClassify) =>
        /\ exc \notin {"ValueError", "KeyError"}
        /\ VisitNumbersConsistent(df)
        /\ \A i \in DOMAIN history_df : \A j \in DOMAIN new_df :
              (history_df[i].license_plate = new_df[j].licensePlate
                    /\ history_df[i].time < new_df[j].time)
                => \E n \in DOMAIN df :
                      /\ df[n].orderId = new_df[j].orderId
                      /\ df[n].is_new_customer = 0

TierMatches(k, v) ==
    STAFFING_THRESHOLDS[k][1] * One <= v /\ v < STAFFING_THRESHOLDS[k][2] * One

\* C5: staff_for_cars returns the staff count of the first tier with
\* low <= v < high, the last tier's count when no tier matches (v is at or
\* above every upper bound), always a count of the table; 45 gives 4, 0 gives
\* 2, 1000 gives 6.
C5_StaffTier ==
    Called("staff_for_cars") =>
        LET v == u_in
            staff == u_out[1]
            tiers == DOMAIN STAFFING_THRESHOLDS
            matching == {k \in tiers : TierMatches(k, v)}
        IN  /\ matching # {} =>
                \E k \in matching :
                    /\ \A m \in matching : k <= m
                    /\ staff = STAFFING_THRESHOLDS[k][3]
            /\ matching = {} =>
                /\ staff = 6
                /\ \A k \in tiers : v >= STAFFING_THRESHOLDS[k][2] * One
            /\ staff \in {STAFFING_THRESHOLDS[k][3] : k \in tiers}
            /\ (v = 45 * One => staff = 4)
            /\ (v = 0 => staff = 2)
            /\ (v = 1000 * One => staff = 6)

C5_Witness == Called("staff_for_cars") /\ u_in = 45 * One /\ u_out = <<4>>

MedianOfAll(profile_df) ==
    LET vals == [i \in 1..Len(profile_df) |-> profile_df[i].median_cars]
        n == Len(vals)
    IN  IF n = 0 THEN 0
        ELSE (ValueAtRank(vals, (n - 1) \div 2) + ValueAtRank(vals, n \div 2)) \div 2

\* C6: every forecast row has median_cars equal to the profile value of its
\* (weekday, hour), else the median of all profile values (0 for an empty
\* profile); forecast_cars is median_cars * rain_impact when precip_prob >= 60
\* and median_cars otherwise, to the nearest tenth, whatever the rain volume;
\* median 10 with precip_prob 75 and rain_impact 0.7 gives 7.0.
C6_ForecastValue ==
    Called("forecast_with_weather") =>
        \A i \in DOMAIN u_out[1] :
            LET r == u_out[1][i]
                hits == {j \in DOMAIN u_in.profile :
                            /\ u_in.profile[j].weekday = r.weekday
                            /\ u_in.profile[j].hour = r.hour}
                exact == IF r.precip_prob >= 60
                         THEN (r.median_cars * u_in.rain_impact) \div 10
                         ELSE r.median_cars
            IN  /\ hits # {} => \E j \in hits : r.median_cars = u_in.profile[j].median_cars
                /\ hits = {} => r.median_cars = MedianOfAll(u_in.profile)
                /\ (hits = {} /\ u_in.profile # <<>>) => r.median_cars > 0
                /\ r.forecast_cars % Tenth = 0
                /\ 2 * (r.forecast_cars - exact) <= Tenth
                /\ 2 * (exact - r.forecast_cars) <= Tenth
                /\ (r.median_cars = 10 * One /\ r.precip_prob = 75 /\ u_in.rain_impact = 7)
                        => r.forecast_cars = 7 * One

C6_Witness ==
    /\ Called("forecast_with_weather")
    /\ u_in.rain_impact = 7
    /\ \E i \in DOMAIN u_out[1] :
          /\ u_out[1][i].hour = 14
          /\ u_out[1][i].precip_prob = 75
          /\ u_out[1][i].rain_mm = 5
          /\ u_out[1][i].median_cars = 10 * One
          /\ u_out[1][i].forecast_cars = 7 * One
    /\ \E i \in DOMAIN u_out[1] :
          /\ u_out[1][i].hour = 15
          /\ u_out[1][i].precip_prob = 59
          /\ u_out[1][i].median_cars = (23 * One) \div 4
          /\ u_out[1][i].forecast_cars \in {57 * Tenth, 58 * Tenth}

\* C7: forecast_cars is never negative after the weather adjustment, for
\* any profile, weather sequence and rain-impact multiplier.
C7_NeverNegative ==
    Called("forecast_with_weather") =>
        \A i \in DOMAIN u_out[1] : u_out[1][i].forecast_cars >= 0

\* C8: the car counts of the hourly aggregates add up to the number of rows
\* with a resolved timestamp; rows without one are in no aggregate, every
\* count is positive and each observed (date, hour) has exactly one record.
C8_AggregateCounts ==
    Called("aggregate_hourly_counts") =>
        LET d == u_in
            out == u_out[1]
            resolved == {i \in DOMAIN d : d[i].time # NaT}
            At(n) == {i \in resolved : DateOf(d[i].time) = out[n].date
                                        /\ HourOf(d[i].time) = out[n].hour}
        IN  /\ SumSeq([n \in 1..Len(out) |-> out[n].cars]) = Cardinality(resolved)
            /\ \A n \in DOMAIN out : out[n].cars > 0 /\ out[n].cars = Cardinality(At(n))
            /\ \A n, m \in DOMAIN out :
                  (out[n].date = out[m].date /\ out[n].hour = out[m].hour) => n = m
            /\ \A i \in resolved : \E n \in DOMAIN out : i \in At(n)

C8_Witness ==
    /\ Called("aggregate_hourly_counts")
    /\ \E i \in DOMAIN u_in : u_in[i].time = NaT
    /\ \E n \in DOMAIN u_out[1] : u_out[1][n].cars = 2
    /\ Len(u_in) = 3

SaveFailed == \E m \in msgs : m \in {"warning: could not save: StorageError",
                                     "warning: could not save: ValueError"}

\* C9: no failure of a storage call ends the run, and a failed save is
\* reported to the caller by the warning.
C9_StorageFailureNonFatal ==
    /\ exc # "StorageError"
    /\ (uploaded /\ pc \notin {"start", "insert", "stopped"} /\ "success: saved" \notin msgs)
            => SaveFailed

\* C10: a batch row with an unparseable timestamp does not keep the rest of
\* the batch from being saved: unless the table call itself failed, every
\* row of the batch with a resolved timestamp is in the table after the save
\* step, and no unresolved row is aggregated.
C10_BadRowIsolated ==
    (uploaded /\ pc \notin {"start", "insert"}
        /\ "warning: could not save: StorageError" \notin msgs) =>
        /\ \A i \in DOMAIN new_df :
              new_df[i].time # NaT =>
                  \E n \in DOMAIN table : table[n].order_id = new_df[i].orderId
        /\ SumSeq([n \in 1..Len(hourly) |-> hourly[n].cars])
              <= Cardinality({i \in DOMAIN df : df[i].time # NaT})

UniqueProfileKeys(hourly_df, profile_df) ==
    /\ \A i, j \in DOMAIN profile_df :
          (profile_df[i].weekday = profile_df[j].weekday
                /\ profile_df[i].hour = profile_df[j].hour) => i = j
    /\ {<<profile_df[i].weekday, profile_df[i].hour>> : i \in DOMAIN profile_df}
          = {<<hourly_df[i].weekday, hourly_df[i].hour>> : i \in DOMAIN hourly_df}

OneRecordPerWeatherHour(weather, forecast) ==
    /\ Len(forecast) = Len(weather)
    /\ \A i \in DOMAIN weather :
          /\ forecast[i].time = weather[i].time
          /\ forecast[i].precip_prob = weather[i].precip_prob
          /\ "forecast_cars" \in DOMAIN forecast[i]
    /\ \A i, j \in DOMAIN forecast : i < j => forecast[i].time < forecast[j].time

\* C11: a profile built by build_baseline_profile has exactly one entry per
\* observed (weekday, hour), and for such a profile forecast_with_weather
\* returns exactly one record per weather record, none duplicated or
\* dropped, in the time-ascending order of the weather input.
C11_OneForecastPerWeatherRecord ==
    /\ Called("build_baseline_profile") =>
          /\ UniqueProfileKeys(u_in.hourly, u_out[1].profile)
          /\ OneRecordPerWeatherHour(u_in.weather, u_out[1].forecast)
    /\ Called("forecast_with_weather") =>
          OneRecordPerWeatherHour(u_in.weather, u_out[1])

C11_Witness ==
    /\ Called("build_baseline_profile")
    /\ Len(u_in.hourly) = 2
    /\ u_in.hourly[1].date = 3 /\ u_in.hourly[2].date = 10
    /\ Len(u_out[1].profile) = 1
    /\ Len(u_in.weather) = 2
    /\ Len(u_out[1].forecast) = 2
    /\ u_out[1].forecast[1].hour = 14 /\ u_out[1].forecast[2].hour = 15

\* A row of the combined frame that stands for the uploaded transaction tx:
\* the batch's own row, or the stored record reloaded with the history.
IsCopyOf(r, tx) ==
    \/ r.orderId = tx.orderId
    \/ "order_id" \in DOMAIN r /\ r.order_id = tx.orderId

CopiesIn(d, tx) == {n \in DOMAIN d : IsCopyOf(d[n], tx)}

\* C12: in an upload run whose batch was saved, every uploaded transaction
\* occurs exactly once in the combined frame that is classified and
\* aggregated, whose size is the prior history plus the batch (the size of
\* the table after the save).
C12_BatchCountedOnce ==
    (uploaded /\ "success: saved" \in msgs /\ (pc = "classify" \/ PastClassify)) =>
        /\ \A j \in DOMAIN new_df : Cardinality(CopiesIn(df, new_df[j])) = 1
        /\ Len(df) = Len(table)

====
